---- MODULE Spec2Model ----
(***************************************************************************)
(* The auto-arm decision engine of custom_components/autoarm:              *)
(* AlarmArmer (autoarming.py), Limiter (helpers.py), the default           *)
(* transition rules (const.py) and the calendar tracker (calendar.py).     *)
(*                                                                         *)
(* Time is counted in ticks of 30 minutes: the intervention ttl of 60      *)
(* minutes is 2 ticks, the hourly housekeeping fires on every second tick. *)
(* Every handler runs to completion before the next one starts (one event  *)
(* loop), so each handler is one action.                                   *)
(***************************************************************************)
EXTENDS Integers, Sequences, FiniteSets, TLC

VARIABLES
    now,                 \* dt_util.now(), in ticks
    panel,               \* raw state string of the alarm panel entity
    changed_by,          \* changed_by attribute of the alarm panel entity
    persons,             \* state of every occupant entity
    sun,                 \* state of sun.sun
    calls,               \* Limiter.calls
    window,              \* Limiter.window (rate_limit.period)
    max_calls,           \* Limiter.max_calls (rate_limit.max_calls)
    interventions,       \* AlarmArmer.interventions
    pre_pending_state,   \* AlarmArmer.pre_pending_state
    timers,              \* point-in-time jobs registered by schedule_state
    transition_config,   \* AlarmArmer.transition_config as configured
    occupied_defaults,   \* AlarmArmer.occupied_defaults["day"], or none
    housekept,           \* the housekeeping timer has fired at this tick
    notifications,       \* notifications dispatched by the last handler
    calendar,            \* the events the calendar entity holds, by uid
    tracked_events,      \* TrackedCalendar.tracked_events, by event id
    orphans,             \* events dropped from tracked_events with a live timer
    calendars,           \* AlarmArmer.calendars is not empty
    calendar_no_event_mode, \* AlarmArmer.calendar_no_event_mode
    polled,              \* the calendar poll timer has fired at this tick
    budget,              \* external events the environment may still raise
    phase,               \* constructed, then running once initialize() has run
    log,                 \* calls made by the last handler, in order of return
    call_times,          \* times at which the limiter harness called triggered()
    fault,               \* the host call that raises next: none, commit, notify, decide
    failures,            \* AppHealthTracker.failures
    arming_in_progress   \* AlarmArmer.arming_in_progress is set

vars == <<now, panel, changed_by, persons, sun, calls, window, max_calls,
          interventions, pre_pending_state, timers, transition_config,
          occupied_defaults, housekept, notifications, calendar, tracked_events,
          orphans, calendars, calendar_no_event_mode, polled, budget, phase, log,
          call_times, fault, failures, arming_in_progress>>

----------------------------------------------------------------------------
(* Bounds of the model *)

MaxTime == 4
MaxEvents == 3
MaxCalendarEvents == 2
MaxWindow == 2
MaxCallsCfg == 2
MaxCalls == 4
MaxLedger == 2
MaxTimers == 1

(* Program constants, in ticks *)

intervention_ttl == 2
HousekeepingPeriod == 2

----------------------------------------------------------------------------
(* Values *)

None == "none"

NoTime == -1

AlarmControlPanelState ==
    {"disarmed", "armed_home", "armed_away", "armed_night", "armed_vacation",
     "armed_custom_bypass", "pending", "arming", "disarming", "triggered"}

ZOMBIE_STATES == {"unknown", "unavailable"}

Occupants == {"person.a"}

STATE_HOME == "home"

STATE_BELOW_HORIZON == "below_horizon"

----------------------------------------------------------------------------
(* helpers.py *)

alarm_state_as_enum(state_str) ==
    IF state_str = None THEN None
    ELSE IF state_str \in AlarmControlPanelState THEN state_str
    ELSE None

RemoveFirst(s, x) ==
    LET i == CHOOSE k \in 1..Len(s) : s[k] = x /\ \A j \in 1..(k - 1) : s[j] # x
    IN  SubSeq(s, 1, i - 1) \o SubSeq(s, i + 1, Len(s))

RECURSIVE LimiterScan(_, _, _, _)
LimiterScan(copy, cs, cut_off, in_scope) ==
    IF copy = <<>> THEN [calls |-> cs, in_scope |-> in_scope]
    ELSE IF Head(copy) >= cut_off
         THEN LimiterScan(Tail(copy), cs, cut_off, in_scope + 1)
         ELSE LimiterScan(Tail(copy), RemoveFirst(cs, Head(copy)), cut_off, in_scope)

triggered_strict(cs, t, w, n) ==
    LET cut_off == t - w
        scan == LimiterScan(Append(cs, t), Append(cs, t), cut_off, 0)
    IN  [calls |-> scan.calls, ret |-> scan.in_scope >= n]

triggered(cs, t, w, n) ==
    LET cut_off == t - w
        appended == Append(cs, t)
        scan == LimiterScan(appended, appended, cut_off, 0)
    IN  [calls |-> scan.calls, ret |-> scan.in_scope > n]

----------------------------------------------------------------------------
(* The mutable state a handler works on, and what a call record keeps of it *)

Eng ==
    [panel |-> panel, changed_by |-> changed_by, persons |-> persons, sun |-> sun,
     calls |-> calls, interventions |-> interventions,
     pre_pending_state |-> pre_pending_state, timers |-> timers,
     tracked_events |-> tracked_events, orphans |-> orphans,
     fault |-> fault, failures |-> failures, arming_in_progress |-> arming_in_progress,
     notifications |-> <<>>, log |-> <<>>]

View(e) ==
    [panel |-> e.panel, changed_by |-> e.changed_by, calls |-> e.calls,
     interventions |-> e.interventions, notifications |-> e.notifications,
     timers |-> e.timers, fault |-> e.fault, failures |-> e.failures,
     arming_in_progress |-> e.arming_in_progress]

Logged(e, entry) == [e EXCEPT !.log = Append(@, entry)]

----------------------------------------------------------------------------
(* autoarming.py: reading the host's state *)

safe_state(raw) == raw

is_occupied(e) == \E p \in Occupants : safe_state(e.persons[p]) = STATE_HOME

is_night(e) == safe_state(e.sun) = STATE_BELOW_HORIZON

armed_state(e) ==
    LET alarm_state == alarm_state_as_enum(safe_state(e.panel))
    IN  IF alarm_state = None THEN "pending" ELSE alarm_state

(* calendar.py: TrackedCalendarEvent.is_current, is_future *)

is_current(tevent) ==
    IF tevent.track_status = "ended" THEN FALSE
    ELSE now >= tevent.event.start /\ now <= tevent.event.end

is_future(tevent) ==
    IF tevent.track_status = "ended" THEN FALSE
    ELSE tevent.event.start > now

has_active_event(e) ==
    \E id \in DOMAIN e.tracked_events : is_current(e.tracked_events[id])

has_active_calendar_event(e) == calendars /\ has_active_event(e)

active_calendar_event(e) ==
    IF calendars /\ \E id \in DOMAIN e.tracked_events : is_current(e.tracked_events[id])
    THEN e.tracked_events[CHOOSE id \in DOMAIN e.tracked_events :
                             is_current(e.tracked_events[id])].id
    ELSE None

----------------------------------------------------------------------------
(* notifier.py *)

NoFault == "none"

(* helpers.py: AppHealthTracker.record_runtime_error *)

record_runtime_error(e) == [e EXCEPT !.failures = @ + 1]

(* notify catches what the notify service raises and counts it *)

notify(e, source, from_state, to_state) ==
    IF e.fault = "notify"
    THEN record_runtime_error([e EXCEPT !.fault = NoFault])
    ELSE [e EXCEPT !.notifications =
            Append(@, [source |-> source, from_state |-> from_state,
                       to_state |-> to_state])]

----------------------------------------------------------------------------
(* autoarming.py: the Actuator *)

(* The changed_by attribute: "autoarm.<source>" as written by arm, or what  *)
(* another writer left there.                                               *)

ChangedBy(domain, source) == [domain |-> domain, source |-> source]

NotChangedBy == ChangedBy(None, None)

(* arm, once the limiter has counted the call: e1 carries the new call list *)

(* The body of the try in arm: e1 has arming_in_progress set. The write of  *)
(* the panel state may raise (fault commit), which the except clause counts *)

arm_try(e1, arming_state, source) ==
    LET existing_state == armed_state(e1)
        e2 == [e1 EXCEPT !.panel = arming_state,
                         !.changed_by = ChangedBy("autoarm", source)]
    IN  IF arming_state # existing_state
        THEN IF e1.fault = "commit"
             THEN [e |-> record_runtime_error([e1 EXCEPT !.fault = NoFault]),
                   ret |-> None]
             ELSE [e |-> IF source # None
                         THEN notify(e2, source, existing_state, arming_state)
                         ELSE e2,
                   ret |-> arming_state]
        ELSE [e |-> e1, ret |-> existing_state]

arm_finally(r) == [e |-> [r.e EXCEPT !.arming_in_progress = FALSE], ret |-> r.ret]

arm_limited_keeps_flag(e1, limited, arming_state, source) ==
    IF limited THEN [e |-> e1, ret |-> None]
    ELSE IF e1.fault = "commit" /\ arming_state # armed_state(e1)
         THEN arm_try([e1 EXCEPT !.arming_in_progress = TRUE], arming_state, source)
         ELSE arm_finally(arm_try([e1 EXCEPT !.arming_in_progress = TRUE],
                                  arming_state, source))

arm_limited(e1, limited, arming_state, source) ==
    IF limited THEN [e |-> e1, ret |-> None]
    ELSE arm_finally(arm_try([e1 EXCEPT !.arming_in_progress = TRUE],
                             arming_state, source))

arm_unguarded(e, arming_state, source) ==
    IF arming_state = None THEN [e |-> e, ret |-> None]
    ELSE arm_limited([e EXCEPT !.calls = triggered(@, now, window, max_calls).calls],
                     triggered(e.calls, now, window, max_calls).ret,
                     arming_state, source)

arm_records_accepted_only(e, arming_state, source) ==
    IF arming_state = None THEN [e |-> e, ret |-> None]
    ELSE IF armed_state(e) = arming_state THEN [e |-> e, ret |-> None]
    ELSE IF triggered(e.calls, now, window, max_calls).ret THEN [e |-> e, ret |-> None]
    ELSE arm_limited([e EXCEPT !.calls = triggered(@, now, window, max_calls).calls],
                     FALSE, arming_state, source)

arm(e, arming_state, source) ==
    IF arming_state = None THEN [e |-> e, ret |-> None]
    ELSE IF armed_state(e) = arming_state THEN [e |-> e, ret |-> None]
    ELSE arm_limited([e EXCEPT !.calls = triggered(@, now, window, max_calls).calls],
                     triggered(e.calls, now, window, max_calls).ret,
                     arming_state, source)

(* The record of a call of arm: what it was given, the engine before and    *)
(* after, what it returned.                                                 *)

arm_logged(e, r, arming_state, source) ==
    [e |-> Logged(r.e, [call |-> "arm", arming_state |-> arming_state,
                        source |-> source, pre |-> View(e), post |-> View(r.e),
                        ret |-> r.ret]),
     ret |-> r.ret]

call_arm(e, arming_state, source) ==
    arm_logged(e, arm(e, arming_state, source), arming_state, source)

----------------------------------------------------------------------------
(* const.py: the facts given to the transition conditions, the default rules *)

OVERRIDE_STATES == {"armed_vacation", "armed_custom_bypass"}

as_dict_computed_ignores_manual(occupied_, night_, state, calendar_event) ==
    [daytime |-> ~night_,
     occupied |-> occupied_,
     vacation |-> state = "armed_vacation",
     night |-> night_,
     bypass |-> state = "armed_custom_bypass",
     manual |-> state \in OVERRIDE_STATES,
     calendar_event |-> calendar_event,
     state |-> state,
     occupied_daytime_state |->
        IF occupied_defaults # None THEN occupied_defaults ELSE "armed_home",
     disarmed |-> state = "disarmed",
     computed |-> calendar_event = None]

as_dict(occupied_, night_, state, calendar_event) ==
    [daytime |-> ~night_,
     occupied |-> occupied_,
     vacation |-> state = "armed_vacation",
     night |-> night_,
     bypass |-> state = "armed_custom_bypass",
     manual |-> state \in OVERRIDE_STATES,
     calendar_event |-> calendar_event,
     state |-> state,
     occupied_daytime_state |->
        IF occupied_defaults # None THEN occupied_defaults ELSE "armed_home",
     disarmed |-> state = "disarmed",
     computed |-> calendar_event = None /\ state \notin OVERRIDE_STATES]

(* A transition is a state and the list of its condition templates. The      *)
(* templates of DEFAULT_TRANSITIONS are named by their text; a configuration *)
(* may use the templates of ConfiguredTemplates, "invalid" being one the     *)
(* host's validation rejects.                                                *)

DEFAULT_TRANSITIONS_without_daytime_default ==
    << [state |-> "armed_home", conditions |-> << "occupied and not night" >>],
       [state |-> "armed_away", conditions |-> << "not occupied and computed" >>],
       [state |-> "disarmed",
        conditions |-> << "occupied and not night",
                          "computed and occupied_daytime_state == 'disarmed'" >>],
       [state |-> "armed_night", conditions |-> << "occupied and night and computed" >>],
       [state |-> "armed_vacation", conditions |-> << "vacation" >>] >>

DEFAULT_TRANSITIONS ==
    << [state |-> "armed_home",
        conditions |-> << "occupied and not night",
                          "computed and occupied_daytime_state == 'armed_home'" >>],
       [state |-> "armed_away", conditions |-> << "not occupied and computed" >>],
       [state |-> "disarmed",
        conditions |-> << "occupied and not night",
                          "computed and occupied_daytime_state == 'disarmed'" >>],
       [state |-> "armed_night", conditions |-> << "occupied and night and computed" >>],
       [state |-> "armed_vacation", conditions |-> << "vacation" >>] >>

ConfiguredTemplates == {"true", "occupied", "night", "not occupied", "invalid"}

(* hass_api.py: a template rendered against the facts *)

render(template, v) ==
    CASE template = "occupied and not night" -> v.occupied /\ ~v.night
      [] template = "computed and occupied_daytime_state == 'armed_home'" ->
            v.computed /\ v.occupied_daytime_state = "armed_home"
      [] template = "not occupied and computed" -> ~v.occupied /\ v.computed
      [] template = "computed and occupied_daytime_state == 'disarmed'" ->
            v.computed /\ v.occupied_daytime_state = "disarmed"
      [] template = "occupied and night and computed" ->
            v.occupied /\ v.night /\ v.computed
      [] template = "vacation" -> v.vacation
      [] template = "true" -> TRUE
      [] template = "occupied" -> v.occupied
      [] template = "night" -> v.night
      [] template = "not occupied" -> ~v.occupied
      [] OTHER -> FALSE

(* The checker built from a list of conditions is true when all of them are *)

evaluate_condition(conditions, v) ==
    \A i \in 1..Len(conditions) : render(conditions[i], v)

build_condition(conditions) ==
    \A i \in 1..Len(conditions) : conditions[i] # "invalid"

(* autoarming.py: initialize_logic, determine_state *)

ConfiguredStates(config) == {config[i].state : i \in 1..Len(config)}

initialize_logic(config) ==
    LET defaulted == SelectSeq(DEFAULT_TRANSITIONS,
                               LAMBDA t : t.state \notin ConfiguredStates(config))
    IN  SelectSeq(config \o defaulted, LAMBDA t : build_condition(t.conditions))

transitions == initialize_logic(transition_config)

RECURSIVE FirstMatch(_, _)
FirstMatch(rules, v) ==
    IF rules = <<>> THEN None
    ELSE IF evaluate_condition(Head(rules).conditions, v) THEN Head(rules).state
    ELSE FirstMatch(Tail(rules), v)

RECURSIVE LastMatch(_, _)
LastMatch(rules, v) ==
    IF rules = <<>> THEN None
    ELSE LET later == LastMatch(Tail(rules), v)
         IN  IF later # None THEN later
             ELSE IF evaluate_condition(Head(rules).conditions, v) THEN Head(rules).state
             ELSE None

condition_vars(e) ==
    as_dict(is_occupied(e), is_night(e), armed_state(e), active_calendar_event(e))

determine_state_no_break(e) == LastMatch(transitions, condition_vars(e))

determine_state(e) == FirstMatch(transitions, condition_vars(e))

(* hass_api.py: evaluate_condition raises what the condition raises (fault   *)
(* decide), and determine_state lets it through.                             *)

Raised == "raised"

determine_state_logged(e, ret) ==
    [e |-> Logged(e, [call |-> "determine_state", ret |-> ret]), ret |-> ret]

call_determine_state(e) ==
    IF e.fault = "decide"
    THEN determine_state_logged([e EXCEPT !.fault = NoFault], Raised)
    ELSE determine_state_logged(e, determine_state(e))

----------------------------------------------------------------------------
(* autoarming.py: the intervention ledger *)

Intervention(created_at, source, state) ==
    [created_at |-> created_at, source |-> source, state |-> state]

NoIntervention == Intervention(-1, None, None)

(* A job of schedule_state remembers, for the record only, whether an        *)
(* intervention has been recorded since it was requested (field intervened)  *)
(* and the source its caller passed (field origin).                          *)

record_intervention(e, source, state) ==
    LET intervention == Intervention(now, source, state)
        noted == [i \in 1..Len(e.timers) |->
                    IF now > e.timers[i].requested_at
                    THEN [e.timers[i] EXCEPT !.intervened = TRUE]
                    ELSE e.timers[i]]
    IN  [e |-> [e EXCEPT !.interventions = Append(@, intervention), !.timers = noted],
         ret |-> intervention]

has_intervention_since(e, cutoff) ==
    IF e.interventions = <<>> THEN FALSE
    ELSE \E i \in 1..Len(e.interventions) : e.interventions[i].created_at > cutoff

last_state_intervention(e) ==
    LET candidates == SelectSeq(e.interventions, LAMBDA i : i.state # None)
    IN  IF candidates # <<>> THEN candidates[Len(candidates)] ELSE NoIntervention

is_intervention_since_request(e, requested_at) ==
    IF requested_at # NoTime /\ has_intervention_since(e, requested_at) THEN TRUE
    ELSE FALSE

----------------------------------------------------------------------------
(* autoarming.py: the Reset Orchestrator *)

NO_CAL_EVENT_MODE_AUTO == "auto"

NO_CAL_EVENT_MODE_MANUAL == "manual"

(* What the try block of reset_armed_state leaves: the engine, the value    *)
(* returned (Raised when an exception leaves the block), the source and the *)
(* local variable state that the finally clause publishes.                  *)

Sourced(r, source, state) ==
    [e |-> r.e, ret |-> r.ret, source |-> source, state |-> state]

reset_armed(r, source) == Sourced(r, source, r.ret)

(* reset_armed_state from the point where determine_state has answered *)

reset_determined(d, existing_state, source) ==
    IF d.ret = Raised THEN Sourced(d, source, existing_state)
    ELSE IF d.ret # None /\ d.ret # "pending" /\ d.ret # existing_state
    THEN reset_armed(call_arm(d.e, d.ret, source), source)
    ELSE Sourced(d, source, d.ret)

reset_armed_state_ignores_events(e, intervention, source_) ==
    LET source == IF source_ = None /\ intervention # NoIntervention
                  THEN intervention.source ELSE source_
        existing_state == armed_state(e)
        must_change_state == existing_state = None \/ existing_state = "pending"
        unchanged == [e |-> e, ret |-> existing_state]
    IN  IF calendars /\ calendar_no_event_mode = NO_CAL_EVENT_MODE_MANUAL
        THEN Sourced(unchanged, source, existing_state)
        ELSE IF calendars /\ calendar_no_event_mode \in AlarmControlPanelState
        THEN Sourced(call_arm(e, alarm_state_as_enum(calendar_no_event_mode), "calendar"),
                     source, existing_state)
        ELSE IF ~(intervention # NoIntervention \/ source \in {"calendar", "occupancy"}
                  \/ must_change_state)
                /\ last_state_intervention(e) # NoIntervention
        THEN Sourced(unchanged, source, existing_state)
        ELSE reset_determined(call_determine_state(e), existing_state, source)

reset_armed_state_ignores_ledger(e, intervention, source_) ==
    LET source == IF source_ = None /\ intervention # NoIntervention
                  THEN intervention.source ELSE source_
        existing_state == armed_state(e)
        unchanged == [e |-> e, ret |-> existing_state]
    IN  IF calendars /\ active_calendar_event(e) # None
        THEN Sourced(unchanged, source, existing_state)
        ELSE IF calendars /\ calendar_no_event_mode = NO_CAL_EVENT_MODE_MANUAL
        THEN Sourced(unchanged, source, existing_state)
        ELSE IF calendars /\ calendar_no_event_mode \in AlarmControlPanelState
        THEN Sourced(call_arm(e, alarm_state_as_enum(calendar_no_event_mode), "calendar"),
                     source, existing_state)
        ELSE reset_determined(call_determine_state(e), existing_state, source)

(* The try block of reset_armed_state *)

reset_decision(e, intervention, source_) ==
    LET source == IF source_ = None /\ intervention # NoIntervention
                  THEN intervention.source ELSE source_
        existing_state == armed_state(e)
        must_change_state == existing_state = None \/ existing_state = "pending"
        unchanged == [e |-> e, ret |-> existing_state]
    IN  IF calendars /\ active_calendar_event(e) # None
        THEN Sourced(unchanged, source, existing_state)
        ELSE IF calendars /\ calendar_no_event_mode = NO_CAL_EVENT_MODE_MANUAL
        THEN Sourced(unchanged, source, existing_state)
        ELSE IF calendars /\ calendar_no_event_mode \in AlarmControlPanelState
        THEN Sourced(call_arm(e, alarm_state_as_enum(calendar_no_event_mode), "calendar"),
                     source, existing_state)
        ELSE IF ~(intervention # NoIntervention \/ source \in {"calendar", "occupancy"}
                  \/ must_change_state)
                /\ last_state_intervention(e) # NoIntervention
        THEN Sourced(unchanged, source, existing_state)
        ELSE reset_determined(call_determine_state(e), existing_state, source)

(* The finally clause: the last_calculation sensor is written whatever left *)
(* the try block, a return or an exception.                                 *)

last_calculation(e, r) ==
    [e |-> Logged(r.e, [call |-> "last_calculation",
                        changed |-> r.state # None /\ r.state # armed_state(e),
                        new_state |-> r.state, old_state |-> armed_state(e),
                        source |-> r.source,
                        occupied |-> is_occupied(r.e), night |-> is_night(r.e)]),
     ret |-> r.ret, source |-> r.source]

last_calculation_unless_raised(e, r) ==
    IF r.ret = Raised THEN [e |-> r.e, ret |-> r.ret, source |-> r.source]
    ELSE last_calculation(e, r)

reset_armed_state_without_finally(e, intervention, source_) ==
    last_calculation_unless_raised(e, reset_decision(e, intervention, source_))

reset_armed_state(e, intervention, source_) ==
    last_calculation(e, reset_decision(e, intervention, source_))

(* The record of a call keeps what the call was given, the calendar and the  *)
(* ledger it found, how many determine_state calls it made and how many     *)
(* times it wrote the last_calculation sensor.                              *)

Count(lg, name) == Cardinality({i \in 1..Len(lg) : lg[i].call = name})

reset_logged(e, r, intervention) ==
    [e |-> Logged(r.e, [call |-> "reset_armed_state",
                        intervention |-> intervention, source |-> r.source,
                        active |-> has_active_calendar_event(e),
                        pre |-> View(e), post |-> View(r.e),
                        determined |-> Count(r.e.log, "determine_state")
                                       - Count(e.log, "determine_state"),
                        armed |-> Count(r.e.log, "arm") - Count(e.log, "arm"),
                        published |-> Count(r.e.log, "last_calculation")
                                      - Count(e.log, "last_calculation"),
                        tracked |-> <<e.tracked_events, e.orphans>>
                                    = <<r.e.tracked_events, r.e.orphans>>,
                        ret |-> r.ret]),
     ret |-> r.ret]

call_reset_armed_state(e, intervention, source_) ==
    reset_logged(e, reset_armed_state(e, intervention, source_), intervention)

pending_state(e, source) ==
    call_arm([e EXCEPT !.pre_pending_state = armed_state(e)], "pending", source)

----------------------------------------------------------------------------
(* calendar.py: TrackedCalendarEvent                                        *)
(*                                                                          *)
(* tracked_events is the dict of a TrackedCalendar in insertion order, a    *)
(* sequence of event objects. An object deleted from the dict while one of  *)
(* its timers is still registered lives on in orphans: the timer holds it.  *)
(* A ref names an object: the id of a tracked one, or the orphan itself.    *)
(* An object remembers, for the record only, which of its handlers have    *)
(* run (field ran): start, end, released when the End handler found no     *)
(* other active event, applied when it changed the panel state or sent a   *)
(* notification, past when it was created after its end.                   *)

TrackedRef(id) == [orphan |-> FALSE, id |-> id]

OrphanRef(tevent) == [orphan |-> TRUE, tevent |-> tevent]

TrackedIds(e) == {e.tracked_events[i].id : i \in 1..Len(e.tracked_events)}

IndexOf(e, id) == CHOOSE i \in 1..Len(e.tracked_events) : e.tracked_events[i].id = id

Get(e, ref) ==
    IF ref.orphan THEN ref.tevent ELSE e.tracked_events[IndexOf(e, ref.id)]

HasListener(tevent) == tevent.start_listener # NoTime \/ tevent.end_listener # NoTime

(* Put stores an object back; Settle also forgets an orphan without timers *)

Put(e, ref, tevent) ==
    IF ref.orphan THEN e
    ELSE [e EXCEPT !.tracked_events[IndexOf(e, ref.id)] = tevent]

Settle(e, ref, tevent) ==
    IF ref.orphan
    THEN [e EXCEPT !.orphans = (@ \ {ref.tevent})
                                \cup (IF HasListener(tevent) THEN {tevent} ELSE {})]
    ELSE [e EXCEPT !.tracked_events[IndexOf(e, ref.id)] = tevent]

TrackedCalendarEvent(e, event, arming_state) ==
    [id |-> event.uid, event |-> event, arming_state |-> arming_state,
     no_event_mode |-> calendar_no_event_mode,
     start_listener |-> NoTime, end_listener |-> NoTime,
     previous_state |-> armed_state(e), track_status |-> "pending",
     tracked_at |-> now, ran |-> {}]

shutdown_event(tevent) ==
    [tevent EXCEPT !.start_listener = NoTime, !.end_listener = NoTime]

start_logged(a, ref, tevent) ==
    Logged(a.e, [call |-> "on_calendar_event_start", id |-> tevent.id,
                 new_state |-> a.ret, arming_state |-> tevent.arming_state,
                 track_status |-> tevent.track_status, dropped |-> ref.orphan])

on_calendar_event_start(e, ref) ==
    start_logged(call_arm(e, Get(e, ref).arming_state, "calendar"), ref, Get(e, ref))

on_calendar_event_end_ignores_active(e, ref) ==
    LET tevent == Get(e, ref)
    IN  IF tevent.no_event_mode = NO_CAL_EVENT_MODE_AUTO
        THEN call_reset_armed_state(pending_state(e, "calendar").e, NoIntervention,
                                    "calendar").e
        ELSE IF tevent.no_event_mode \in AlarmControlPanelState
        THEN call_arm(e, alarm_state_as_enum(tevent.no_event_mode), "calendar").e
        ELSE call_arm(e, tevent.previous_state, "calendar").e

on_calendar_event_end(e, ref) ==
    LET tevent == Get(e, ref)
    IN  IF has_active_calendar_event(e) THEN e
        ELSE IF tevent.no_event_mode = NO_CAL_EVENT_MODE_AUTO
        THEN call_reset_armed_state(pending_state(e, "calendar").e, NoIntervention,
                                    "calendar").e
        ELSE IF tevent.no_event_mode \in AlarmControlPanelState
        THEN call_arm(e, alarm_state_as_enum(tevent.no_event_mode), "calendar").e
        ELSE call_arm(e, tevent.previous_state, "calendar").e

end_logged(e, r, ref) ==
    Logged(r, [call |-> "on_calendar_event_end", id |-> Get(e, ref).id,
               no_event_mode |-> Get(e, ref).no_event_mode,
               previous_state |-> Get(e, ref).previous_state,
               ran |-> Get(e, ref).ran,
               other_active |-> has_active_calendar_event(e),
               made |-> Len(r.log) - Len(e.log),
               pre_pending_state |-> <<e.pre_pending_state, r.pre_pending_state>>,
               pre |-> View(e), post |-> View(r)])

call_on_calendar_event_end(e, ref) ==
    end_logged(e, on_calendar_event_end(e, ref), ref)

Ended(e1, e2, ended) ==
    [ended EXCEPT !.ran = @ \cup (IF has_active_calendar_event(e1) THEN {"end"}
                                  ELSE {"end", "released"})
                            \cup (IF e2.panel # e1.panel \/ e2.notifications # e1.notifications
                                  THEN {"applied"} ELSE {})]

end(e, ref) ==
    LET ended == [Get(e, ref) EXCEPT !.track_status = "ended"]
        e1 == Put(e, ref, ended)
        e2 == call_on_calendar_event_end(e1, IF ref.orphan THEN OrphanRef(ended) ELSE ref)
    IN  Settle(e2, ref, shutdown_event(Ended(e1, e2, ended)))

update(e, ref, new_event) ==
    LET tevent == Get(e, ref)
        was_current == is_current(tevent)
        updated == [tevent EXCEPT !.event = new_event]
        e1 == Put(e, ref, updated)
    IN  IF ~is_current(updated) /\ was_current THEN end(e1, ref) ELSE e1

remove_logged(e, r, ref) ==
    Logged(r, [call |-> "remove", id |-> Get(e, ref).id, ran |-> Get(e, ref).ran,
               track_status |-> Get(e, ref).track_status,
               current |-> is_current(Get(e, ref))])

remove_unlogged(e, ref) ==
    LET tevent == Get(e, ref)
    IN  IF tevent.track_status = "started" THEN end(e, ref)
        ELSE Settle(e, ref, [tevent EXCEPT !.track_status = "ended"])

remove(e, ref) == remove_logged(e, remove_unlogged(e, ref), ref)

(* initialize, past the start of the event: the end listener *)

initialize_end(e1, ref) ==
    LET t1 == Get(e1, ref)
    IN  IF t1.event.end > t1.tracked_at
        THEN Put(e1, ref, [t1 EXCEPT !.end_listener = t1.event.end])
        ELSE e1

initialize(e, ref) ==
    LET tevent == Get(e, ref)
    IN  IF tevent.event.end < tevent.tracked_at
        THEN Put(e, ref, [tevent EXCEPT !.track_status = "ended", !.ran = {"past"}])
        ELSE initialize_end(
                IF tevent.event.start > tevent.tracked_at
                THEN Put(e, ref, [tevent EXCEPT !.start_listener = tevent.event.start])
                ELSE Put(on_calendar_event_start(e, ref), ref,
                         [tevent EXCEPT !.track_status = "started", !.ran = {"start"}]),
                ref)

----------------------------------------------------------------------------
(* calendar.py: TrackedCalendar *)

EventIds == <<"e1", "e2">>

Rank(uid) == CHOOSE i \in 1..Len(EventIds) : EventIds[i] = uid

(* The calendar entity's answer to async_get_events(start_dt, end_dt): the  *)
(* uids of the events that overlap the window, sorted by start time.        *)

Overlapping(start_dt, end_dt) ==
    {uid \in DOMAIN calendar :
        /\ calendar[uid].start <= end_dt
        /\ calendar[uid].end >= start_dt}

Before(a, b) ==
    \/ calendar[a].start < calendar[b].start
    \/ calendar[a].start = calendar[b].start /\ Rank(a) < Rank(b)

Sorted(S) ==
    CHOOSE q \in [1..Cardinality(S) -> S] :
        \A i, j \in 1..Cardinality(S) : i < j => Before(q[i], q[j])

async_get_events(start_dt, end_dt) == Sorted(Overlapping(start_dt, end_dt))

(* In ticks: a poll every 30 minutes; the 15 minutes looked back reach the  *)
(* events that ended since the previous tick, the 5 minutes looked ahead    *)
(* past the next poll reach no further tick.                                *)

poll_interval == 1

MatchLookBack == 1

MatchLookAhead == 0

match_one(e, event) ==
    IF event.state = None
    THEN IF event.uid \in TrackedIds(e) THEN remove(e, TrackedRef(event.uid)) ELSE e
    ELSE IF event.uid \notin TrackedIds(e)
         THEN IF alarm_state_as_enum(event.state) = None THEN e
              ELSE initialize(
                     [e EXCEPT !.tracked_events =
                        Append(@, TrackedCalendarEvent(e, event,
                                                       alarm_state_as_enum(event.state)))],
                     TrackedRef(event.uid))
         ELSE IF Get(e, TrackedRef(event.uid)).event # event
              THEN update(e, TrackedRef(event.uid), event)
              ELSE e

RECURSIVE match_each(_, _)
match_each(e, uids) ==
    IF uids = <<>> THEN e
    ELSE match_each(match_one(e, calendar[Head(uids)]), Tail(uids))

match_events(e) ==
    match_each(e, async_get_events(now - MatchLookBack,
                                   now + poll_interval + MatchLookAhead))

(* prune_events: the first loop ends the events that are neither current nor *)
(* future, the second removes those the calendar no longer returns, the last *)
(* deletes the collected ids; a del of an id already deleted raises KeyError *)
(* and leaves the rest of to_remove in the dict.                             *)

RECURSIVE prune_expired(_, _, _)
prune_expired(e, ids, to_remove) ==
    IF ids = <<>> THEN [e |-> e, to_remove |-> to_remove]
    ELSE LET tevent == Get(e, TrackedRef(Head(ids)))
         IN  IF ~is_current(tevent) /\ ~is_future(tevent)
             THEN prune_expired(end(e, TrackedRef(Head(ids))), Tail(ids),
                                Append(to_remove, Head(ids)))
             ELSE prune_expired(e, Tail(ids), to_remove)

RECURSIVE prune_dead(_, _, _, _)
prune_dead(e, ids, live_event_ids, to_remove) ==
    IF ids = <<>> THEN [e |-> e, to_remove |-> to_remove]
    ELSE LET tevent == Get(e, TrackedRef(Head(ids)))
         IN  IF tevent.event.uid \notin live_event_ids
             THEN prune_dead(remove(e, TrackedRef(Head(ids))), Tail(ids),
                             live_event_ids, Append(to_remove, Head(ids)))
             ELSE prune_dead(e, Tail(ids), live_event_ids, to_remove)

Delete(e, id) ==
    LET tevent == Get(e, TrackedRef(id))
    IN  [e EXCEPT !.tracked_events = SelectSeq(@, LAMBDA t : t.id # id),
                  !.orphans = IF HasListener(tevent) THEN @ \cup {tevent} ELSE @]

RECURSIVE delete_each(_, _)
delete_each(e, to_remove) ==
    IF to_remove = <<>> THEN e
    ELSE IF Head(to_remove) \notin TrackedIds(e)
         THEN Logged(e, [call |-> "KeyError", id |-> Head(to_remove)])
         ELSE delete_each(Delete(e, Head(to_remove)), Tail(to_remove))

IdsOf(e) == [i \in 1..Len(e.tracked_events) |-> e.tracked_events[i].id]

MinStart(e) ==
    CHOOSE t \in {e.tracked_events[i].event.start : i \in 1..Len(e.tracked_events)} :
        \A i \in 1..Len(e.tracked_events) : t <= e.tracked_events[i].event.start

MaxEnd(e) ==
    CHOOSE t \in {e.tracked_events[i].event.end : i \in 1..Len(e.tracked_events)} :
        \A i \in 1..Len(e.tracked_events) : t >= e.tracked_events[i].event.end

prune_unlisted(e, x) ==
    IF e.tracked_events # <<>>
    THEN prune_dead(x.e, IdsOf(x.e), Overlapping(MinStart(e), MaxEnd(e)), x.to_remove)
    ELSE x

prune_delete(d) == delete_each(d.e, d.to_remove)

prune_events(e) == prune_delete(prune_unlisted(e, prune_expired(e, IdsOf(e), <<>>)))

on_timed_poll(e) == prune_events(match_events(e))

----------------------------------------------------------------------------
(* autoarming.py: delayed operations *)

schedule_state(e, trigger_time, state, intervention, source_) ==
    LET source == IF intervention # NoIntervention
                  THEN (IF source_ # None THEN source_ ELSE intervention.source)
                  ELSE None
        job == IF state = None
               THEN [kind |-> "reset", trigger_time |-> trigger_time,
                     requested_at |-> now, arming_state |-> None,
                     intervention |-> intervention, source |-> source,
                     origin |-> source_, intervened |-> FALSE]
               ELSE [kind |-> "arm", trigger_time |-> trigger_time,
                     requested_at |-> now, arming_state |-> state,
                     intervention |-> NoIntervention, source |-> source,
                     origin |-> source_, intervened |-> FALSE]
    IN  [e EXCEPT !.timers = Append(@, job)]

delayed_reset_armed_state(e, job) ==
    IF is_intervention_since_request(e, job.requested_at) THEN e
    ELSE call_reset_armed_state(e, job.intervention, job.source).e

delayed_arm(e, job) ==
    IF is_intervention_since_request(e, job.requested_at) THEN e
    ELSE call_arm(e, job.arming_state, job.source).e

(* What the configuration gives the handlers: the delay of each button, of  *)
(* each occupancy state, and how far before the earliest sunrise time the   *)
(* sun may rise. 0 is no delay.                                             *)

ButtonDelay == 3

ResetDelay == 1

NotHomeDelay == 1

SunriseEarly == 1

buttons ==
    [armed_away |-> ButtonDelay, disarmed |-> 0, reset |-> ResetDelay]

occupied_delay == [not_home |-> NotHomeDelay]

ATTR_RESET == "reset"

----------------------------------------------------------------------------
(* autoarming.py: the handlers *)

on_sunrise(e, early) ==
    IF early = 0 THEN call_reset_armed_state(e, NoIntervention, "sunrise").e
    ELSE schedule_state(e, now + early, None, NoIntervention, "sunrise")

on_sunset_via_pending(e) ==
    call_reset_armed_state(pending_state(e, "sunset").e, NoIntervention, "sunset").e

on_sunset(e) == call_reset_armed_state(e, NoIntervention, "sunset").e

on_mobile_action(e, action) ==
    CASE action = "ALARM_PANEL_DISARM" ->
            call_arm(record_intervention(e, "mobile", "disarmed").e, "disarmed", "mobile").e
      [] action = "ALARM_PANEL_RESET" ->
            LET r == record_intervention(e, "button", None)
            IN  call_reset_armed_state(r.e, r.ret, None).e
      [] action = "ALARM_PANEL_AWAY" ->
            call_arm(record_intervention(e, "mobile", "armed_away").e,
                     "armed_away", "mobile").e
      [] OTHER -> e

on_alarm_state_button(e, state, delay) ==
    LET r == record_intervention(e, "button", state)
    IN  IF delay # 0
        THEN notify(schedule_state(r.e, now + delay, state, r.ret, "button"),
                    "button", armed_state(r.e), state)
        ELSE call_arm(r.e, state, "button").e

on_reset_button(e, delay) ==
    LET r == record_intervention(e, "button", None)
    IN  IF delay # 0
        THEN notify(schedule_state(r.e, now + delay, None, r.ret, "button"),
                    "button", None, None)
        ELSE LET r2 == record_intervention(r.e, "button", None)
             IN  call_reset_armed_state(r2.e, r2.ret, None).e

on_occupancy_change(e, old, new) ==
    IF old = new THEN e
    ELSE IF new \in DOMAIN occupied_delay
         THEN schedule_state(e, now + occupied_delay[new], None, NoIntervention,
                             "occupancy")
         ELSE call_reset_armed_state(e, NoIntervention, "occupancy").e

on_panel_change_ignores_marker(e, old, new, new_changed_by) ==
    LET r == record_intervention(e, "alarm_panel", alarm_state_as_enum(new))
    IN  IF new \in ZOMBIE_STATES
        THEN call_reset_armed_state(r.e, NoIntervention, "zombification").e
        ELSE IF new # old
             THEN notify(r.e, "alarm_panel", alarm_state_as_enum(old),
                         alarm_state_as_enum(new))
             ELSE r.e

on_panel_change_without_dezombify(e, old, new, new_changed_by) ==
    IF new_changed_by # NotChangedBy /\ new_changed_by.domain = "autoarm" THEN e
    ELSE LET r == record_intervention(e, "alarm_panel", alarm_state_as_enum(new))
         IN  IF new # old
             THEN notify(r.e, "alarm_panel", alarm_state_as_enum(old),
                         alarm_state_as_enum(new))
             ELSE r.e

on_panel_change(e, old, new, new_changed_by) ==
    IF new_changed_by # NotChangedBy /\ new_changed_by.domain = "autoarm" THEN e
    ELSE LET r == record_intervention(e, "alarm_panel", alarm_state_as_enum(new))
         IN  IF new \in ZOMBIE_STATES
             THEN call_reset_armed_state(r.e, NoIntervention, "zombification").e
             ELSE IF new # old
                  THEN notify(r.e, "alarm_panel", alarm_state_as_enum(old),
                              alarm_state_as_enum(new))
                  ELSE r.e

reset_service(e) ==
    LET r == record_intervention(e, "action", None)
    IN  call_reset_armed_state(r.e, r.ret, None).e

housekeeping_keeps_at_ttl(e) ==
    LET pruned == [e EXCEPT !.interventions =
                      SelectSeq(@, LAMBDA i : now <= i.created_at + intervention_ttl)]
    IN  IF calendars THEN prune_events(pruned) ELSE pruned

housekeeping_without_sweep(e) == IF calendars THEN prune_events(e) ELSE e

housekeeping(e) ==
    LET pruned == [e EXCEPT !.interventions =
                      SelectSeq(@, LAMBDA i : now < i.created_at + intervention_ttl)]
    IN  IF calendars THEN prune_events(pruned) ELSE pruned

initialize_engine(e) ==
    LET polled_ == IF calendars THEN match_events(e) ELSE e
    IN  call_reset_armed_state(polled_, NoIntervention, "startup").e

----------------------------------------------------------------------------
(* The state machine *)

Bounded(e) ==
    /\ Len(e.calls) <= MaxCalls
    /\ Len(e.interventions) <= MaxLedger
    /\ Len(e.timers) <= MaxTimers
    /\ \A i \in 1..Len(e.timers) : e.timers[i].trigger_time <= MaxTime

Config == <<window, max_calls, transition_config, occupied_defaults, calendars,
            calendar_no_event_mode>>

Commit(e) ==
    /\ Bounded(e)
    /\ panel' = e.panel
    /\ changed_by' = e.changed_by
    /\ persons' = e.persons
    /\ sun' = e.sun
    /\ calls' = e.calls
    /\ interventions' = e.interventions
    /\ pre_pending_state' = e.pre_pending_state
    /\ timers' = e.timers
    /\ tracked_events' = e.tracked_events
    /\ orphans' = e.orphans
    /\ notifications' = e.notifications
    /\ log' = e.log
    /\ fault' = e.fault
    /\ failures' = e.failures
    /\ arming_in_progress' = e.arming_in_progress
    /\ UNCHANGED <<Config, call_times>>

Begin(entry) == [Eng EXCEPT !.log = <<entry>>]

Handler(name) == Begin([call |-> name])

Running == phase = "running"

Spend == budget > 0 /\ budget' = budget - 1

DueListeners ==
    {t \in {tracked_events[i] : i \in 1..Len(tracked_events)} \cup orphans :
        \/ t.start_listener # NoTime /\ t.start_listener <= now
        \/ t.end_listener # NoTime /\ t.end_listener <= now}

Tick ==
    /\ phase # "constructed"
    /\ now < MaxTime
    /\ \A i \in 1..Len(timers) : timers[i].trigger_time > now
    /\ (Running /\ now % HousekeepingPeriod = 0) => housekept
    /\ (Running /\ calendars) => polled
    /\ DueListeners = {}
    /\ now' = now + 1
    /\ housekept' = FALSE
    /\ polled' = FALSE
    /\ log' = <<>>
    /\ notifications' = <<>>
    /\ UNCHANGED <<panel, changed_by, persons, sun, calls, interventions,
                   pre_pending_state, timers, tracked_events, orphans, calendar,
                   phase, budget, Config, call_times, fault, failures,
                   arming_in_progress>>

Initialize ==
    /\ phase = "constructed"
    /\ phase' = "running"
    /\ Commit(initialize_engine(Handler("initialize")))
    /\ UNCHANGED <<now, housekept, polled, calendar, budget>>

OnSunrise ==
    /\ Running
    /\ Spend
    /\ sun = STATE_BELOW_HORIZON
    /\ \E early \in {0, SunriseEarly} :
          Commit(on_sunrise([Handler("on_sunrise") EXCEPT !.sun = "above_horizon"],
                            early))
    /\ UNCHANGED <<now, housekept, polled, calendar, phase>>

OnSunset ==
    /\ Running
    /\ Spend
    /\ sun # STATE_BELOW_HORIZON
    /\ Commit(on_sunset([Handler("on_sunset") EXCEPT !.sun = STATE_BELOW_HORIZON]))
    /\ UNCHANGED <<now, housekept, polled, calendar, phase>>

MobileActions == {"ALARM_PANEL_DISARM", "ALARM_PANEL_RESET", "ALARM_PANEL_AWAY"}

OnMobileAction ==
    /\ Running
    /\ Spend
    /\ \E action \in MobileActions :
          Commit(on_mobile_action(Handler("on_mobile_action"), action))
    /\ UNCHANGED <<now, housekept, polled, calendar, phase>>

OnAlarmStateButton ==
    /\ Running
    /\ Spend
    /\ \E state \in DOMAIN buttons \ {ATTR_RESET} :
          Commit(on_alarm_state_button(Handler("on_alarm_state_button"), state,
                                       buttons[state]))
    /\ UNCHANGED <<now, housekept, polled, calendar, phase>>

OnResetButton ==
    /\ Running
    /\ Spend
    /\ Commit(on_reset_button(Handler("on_reset_button"), buttons[ATTR_RESET]))
    /\ UNCHANGED <<now, housekept, polled, calendar, phase>>

OnOccupancyChange ==
    /\ Running
    /\ Spend
    /\ \E p \in Occupants, new \in {STATE_HOME, "not_home"} :
          Commit(on_occupancy_change(
                    [Handler("on_occupancy_change") EXCEPT !.persons[p] = new],
                    persons[p], new))
    /\ UNCHANGED <<now, housekept, polled, calendar, phase>>

PanelInputs == {"disarmed", "armed_vacation", "unavailable"}

(* The state_changed event of the panel, as on_panel_change receives it *)

PanelChange(old, new, new_changed_by) ==
    Begin([call |-> "on_panel_change", old |-> old, new |-> new,
           changed_by |-> new_changed_by, ledger |-> interventions])

(* Another writer changes the panel; it may leave the attributes in place *)

OnPanelChange ==
    /\ Running
    /\ Spend
    /\ \E new \in PanelInputs, new_changed_by \in {NotChangedBy, changed_by} :
          Commit(on_panel_change(
                    [PanelChange(panel, new, new_changed_by)
                        EXCEPT !.panel = new, !.changed_by = new_changed_by],
                    panel, new, new_changed_by))
    /\ UNCHANGED <<now, housekept, polled, calendar, phase>>

(* The state_changed event of a write made by arm comes back to the engine: *)
(* the new state and attributes are those arm wrote, the old state is any   *)
(* other.                                                                   *)

PanelEcho ==
    /\ Running
    /\ changed_by # NotChangedBy
    /\ changed_by.domain = "autoarm"
    /\ \E old \in {"disarmed", "pending"} \ {panel} :
          Commit(on_panel_change(PanelChange(old, panel, changed_by),
                                 old, panel, changed_by))
    /\ UNCHANGED <<now, housekept, polled, calendar, phase, budget>>

(* The reset_state service is registered by initialize and never removed *)

ResetService ==
    /\ phase # "constructed"
    /\ Spend
    /\ Commit(reset_service(Handler("reset_service")))
    /\ UNCHANGED <<now, housekept, polled, calendar, phase>>

Housekeeping ==
    /\ Running
    /\ now % HousekeepingPeriod = 0
    /\ ~housekept
    /\ housekept' = TRUE
    /\ Commit(housekeeping(Begin([call |-> "housekeeping", ledger |-> interventions])))
    /\ UNCHANGED <<now, polled, calendar, phase, budget>>

Without(s, i) == SubSeq(s, 1, i - 1) \o SubSeq(s, i + 1, Len(s))

FireTimer ==
    /\ Running
    /\ \E i \in 1..Len(timers) :
          /\ timers[i].trigger_time <= now
          /\ LET job == timers[i]
                 e == [Begin([call |-> "delayed", job |-> job])
                          EXCEPT !.timers = Without(timers, i)]
             IN  Commit(IF job.kind = "reset" THEN delayed_reset_armed_state(e, job)
                        ELSE delayed_arm(e, job))
    /\ UNCHANGED <<now, housekept, polled, calendar, phase, budget>>

Poll ==
    /\ Running
    /\ calendars
    /\ ~polled
    /\ polled' = TRUE
    /\ Commit(on_timed_poll(Handler("on_timed_poll")))
    /\ UNCHANGED <<now, housekept, calendar, phase, budget>>

(* A point-in-time listener fires once; the object keeps no live timer for it *)

StartTimer ==
    /\ phase # "constructed"
    /\ \/ \E i \in 1..Len(tracked_events) :
             LET t == tracked_events[i]
                 fired == [t EXCEPT !.start_listener = NoTime,
                                    !.ran = @ \cup {"start"}]
             IN  /\ t.start_listener # NoTime /\ t.start_listener <= now
                 /\ Commit(on_calendar_event_start(
                              Put(Begin([call |-> "start_timer", id |-> t.id]),
                                  TrackedRef(t.id), fired),
                              TrackedRef(t.id)))
       \/ \E t \in orphans :
             LET fired == [t EXCEPT !.start_listener = NoTime,
                                    !.ran = @ \cup {"start"}]
                 e == Begin([call |-> "start_timer", id |-> t.id])
             IN  /\ t.start_listener # NoTime /\ t.start_listener <= now
                 /\ Commit(Settle(on_calendar_event_start(e, OrphanRef(fired)),
                                  OrphanRef(t), fired))
    /\ UNCHANGED <<now, housekept, polled, calendar, phase, budget>>

EndTimer ==
    /\ phase # "constructed"
    /\ \/ \E i \in 1..Len(tracked_events) :
             LET t == tracked_events[i]
                 fired == [t EXCEPT !.end_listener = NoTime]
             IN  /\ t.end_listener # NoTime /\ t.end_listener <= now
                 /\ Commit(end(Put(Begin([call |-> "end_timer", id |-> t.id]),
                                   TrackedRef(t.id), fired),
                               TrackedRef(t.id)))
       \/ \E t \in orphans :
             LET fired == [t EXCEPT !.end_listener = NoTime]
                 e == [Begin([call |-> "end_timer", id |-> t.id])
                          EXCEPT !.orphans = (@ \ {t}) \cup {fired}]
             IN  /\ t.end_listener # NoTime /\ t.end_listener <= now
                 /\ Commit(end(e, OrphanRef(fired)))
    /\ UNCHANGED <<now, housekept, polled, calendar, phase, budget>>

(* shutdown: every tracked event cancels its listeners and the dict is      *)
(* cleared, every listener in unsubscribes is cancelled, the jobs of        *)
(* schedule_state among them. The listeners of the objects no longer in     *)
(* tracked_events stay registered.                                          *)

shutdown(e) == [e EXCEPT !.tracked_events = <<>>, !.timers = <<>>]

Shutdown ==
    /\ Running
    /\ phase' = "shutdown"
    /\ Commit(shutdown(Handler("shutdown")))
    /\ UNCHANGED <<now, housekept, polled, calendar, budget>>

(* The calendar's owner adds, changes and deletes events *)

Windows == {<<0, 1>>, <<1, 2>>, <<2, 3>>}

ArmingOf(uid) == IF uid = "e1" THEN "armed_vacation" ELSE "armed_away"

CalendarEvents(uid) ==
    {[uid |-> uid, start |-> w[1], end |-> w[2], state |-> st] :
        w \in Windows, st \in {ArmingOf(uid), None}}

CalendarEdit ==
    /\ Spend
    /\ \E uid \in {EventIds[i] : i \in 1..Len(EventIds)} :
          \/ /\ uid \in DOMAIN calendar
             /\ calendar' = [u \in DOMAIN calendar \ {uid} |-> calendar[u]]
          \/ \E event \in CalendarEvents(uid) :
                /\ IF uid \in DOMAIN calendar THEN calendar[uid] # event ELSE TRUE
                /\ event.end >= now - MatchLookBack
                /\ calendar' = [u \in DOMAIN calendar \cup {uid} |->
                                  IF u = uid THEN event ELSE calendar[u]]
    /\ log' = <<>>
    /\ notifications' = <<>>
    /\ UNCHANGED <<now, panel, changed_by, persons, sun, calls, interventions,
                   pre_pending_state, timers, tracked_events, orphans, housekept,
                   polled, phase, Config, call_times, fault, failures,
                   arming_in_progress>>

----------------------------------------------------------------------------
(* The engine as constructed: AlarmArmer.__init__ *)

EmptyCalendar == [u \in {} |-> None]

Constructed ==
    /\ now = 0
    /\ changed_by = NotChangedBy
    /\ calls = <<>>
    /\ interventions = <<>>
    /\ pre_pending_state = None
    /\ timers = <<>>
    /\ tracked_events = <<>>
    /\ orphans = {}
    /\ housekept = FALSE
    /\ polled = FALSE
    /\ notifications = <<>>
    /\ log = <<>>
    /\ call_times = <<>>
    /\ fault = NoFault
    /\ failures = 0
    /\ arming_in_progress = FALSE
    /\ phase = "constructed"

Init ==
    /\ Constructed
    /\ budget = MaxEvents
    /\ panel = "disarmed"
    /\ persons \in [Occupants -> {STATE_HOME, "not_home"}]
    /\ sun \in {STATE_BELOW_HORIZON, "above_horizon"}
    /\ window = 1
    /\ max_calls \in {1, 2}
    /\ transition_config = <<>>
    /\ occupied_defaults = None
    /\ calendars = FALSE
    /\ calendar_no_event_mode = NO_CAL_EVENT_MODE_AUTO
    /\ calendar = EmptyCalendar

Next ==
    \/ Initialize
    \/ Tick
    \/ OnSunrise
    \/ OnSunset
    \/ OnMobileAction
    \/ OnAlarmStateButton
    \/ OnResetButton
    \/ OnOccupancyChange
    \/ OnPanelChange
    \/ ResetService
    \/ Housekeeping
    \/ FireTimer
    \/ PanelEcho

Spec == Init /\ [][Next]_vars

----------------------------------------------------------------------------
(* The Limiter on its own: any window and max_calls the rate_limit schema   *)
(* accepts (both may be 0), called at any times. call_times keeps, for each *)
(* call of triggered(), when it was made and what it returned.              *)

Idle ==
    <<panel, changed_by, persons, sun, interventions, pre_pending_state, timers,
      tracked_events, orphans, housekept, polled, notifications, calendar, budget,
      phase, fault, failures, arming_in_progress>>

InitLimiter ==
    /\ Constructed
    /\ budget = 0
    /\ panel = "disarmed"
    /\ persons = [p \in Occupants |-> STATE_HOME]
    /\ sun = "above_horizon"
    /\ window \in 0..MaxWindow
    /\ max_calls \in 0..MaxCallsCfg
    /\ transition_config = <<>>
    /\ occupied_defaults = None
    /\ calendars = FALSE
    /\ calendar_no_event_mode = NO_CAL_EVENT_MODE_AUTO
    /\ calendar = EmptyCalendar

LimiterCall ==
    /\ Len(call_times) < MaxCalls
    /\ calls' = triggered(calls, now, window, max_calls).calls
    /\ call_times' = Append(call_times,
                            [t |-> now,
                             ret |-> triggered(calls, now, window, max_calls).ret])
    /\ UNCHANGED <<now, log, Idle, Config>>

LimiterWait ==
    /\ now < MaxTime
    /\ now' = now + 1
    /\ UNCHANGED <<calls, call_times, log, Idle, Config>>

NextLimiter == LimiterCall \/ LimiterWait

SpecLimiter == InitLimiter /\ [][NextLimiter]_vars

(* The calls i-n .. i, n+1 of them, fall within the window *)

Burst(i) ==
    /\ i - max_calls >= 1
    /\ call_times[i].t - call_times[i - max_calls].t <= window

(* C2, as stated: for every window and max_calls the schema accepts, the     *)
(* last of max_calls + 1 calls that fall within the window returns true, and *)
(* a call made once the window has elapsed since the previous call returns   *)
(* false.                                                                    *)

C2_AsStated ==
    \A i \in 1..Len(call_times) :
        /\ Burst(i) => call_times[i].ret
        /\ (i > 1 /\ call_times[i].t - call_times[i - 1].t >= window)
              => ~call_times[i].ret

(* C2, amended: the last of max_calls + 1 calls that fall within the window  *)
(* returns true for every window and max_calls; a call made more than the    *)
(* window after the previous call returns false when max_calls is at least   *)
(* 1. With max_calls 0 every call returns true, and a call made exactly one  *)
(* window after the previous one still counts it.                            *)

C2_LimiterWindow ==
    \A i \in 1..Len(call_times) :
        /\ Burst(i) => call_times[i].ret
        /\ (i > 1 /\ call_times[i].t - call_times[i - 1].t > window /\ max_calls >= 1)
              => ~call_times[i].ret
        /\ max_calls = 0 => call_times[i].ret

C2_Witness ==
    /\ max_calls >= 1
    /\ window >= 1
    /\ \E i, j \in 1..Len(call_times) :
          /\ i < j
          /\ Burst(i) /\ call_times[i].ret
          /\ call_times[j].t - call_times[j - 1].t > window
          /\ ~call_times[j].ret

----------------------------------------------------------------------------
(* The Decision Engine on its own: any configuration of up to MaxRules      *)
(* transitions, any facts, determine_state evaluated on them.               *)

MaxRules == 2

RuleStates == {"armed_night", "disarmed", "armed_away"}

Rules ==
    {[state |-> st, conditions |-> <<c>>] : st \in RuleStates, c \in ConfiguredTemplates}

LogicConfigs ==
    UNION {{q \in [1..n -> Rules] : \A i, j \in 1..n : i # j => q[i].state # q[j].state}
           : n \in 0..MaxRules}

InitLogic ==
    /\ Constructed
    /\ budget = 0
    /\ panel \in {"disarmed", "armed_vacation", "armed_night", "unknown"}
    /\ persons \in [Occupants -> {STATE_HOME, "not_home"}]
    /\ sun \in {STATE_BELOW_HORIZON, "above_horizon"}
    /\ window = 1
    /\ max_calls = 1
    /\ transition_config \in LogicConfigs
    /\ occupied_defaults \in {None, "disarmed", "armed_home"}
    /\ calendars = FALSE
    /\ calendar_no_event_mode = NO_CAL_EVENT_MODE_AUTO
    /\ calendar = EmptyCalendar

Evaluate ==
    /\ log = <<>>
    /\ log' = call_determine_state(Eng).e.log
    /\ UNCHANGED <<now, calls, call_times, Idle, Config>>

NextLogic == Evaluate

SpecLogic == InitLogic /\ [][NextLogic]_vars

(* The rules determine_state goes through, in configuration order, whether   *)
(* or not their conditions were accepted                                     *)

RulesInOrder ==
    transition_config \o
    SelectSeq(DEFAULT_TRANSITIONS, LAMBDA t : t.state \notin ConfiguredStates(transition_config))

Holds(rule) == evaluate_condition(rule.conditions, condition_vars(Eng))

(* C5: determine_state returns the state of the first rule in configuration *)
(* order (the configured ones, then the defaults of the states left out)    *)
(* whose conditions are true of the facts, and none when no rule's are.     *)

C5_FirstMatchWins ==
    \A k \in 1..Len(log) :
        log[k].call = "determine_state" =>
            /\ \A i \in 1..Len(RulesInOrder) :
                  (Holds(RulesInOrder[i]) /\ \A j \in 1..(i - 1) : ~Holds(RulesInOrder[j]))
                     => log[k].ret = RulesInOrder[i].state
            /\ (\A i \in 1..Len(RulesInOrder) : ~Holds(RulesInOrder[i]))
                  => log[k].ret = None

C5_Witness ==
    /\ log # <<>>
    /\ \E i, j \in 1..Len(RulesInOrder) :
          /\ i < j
          /\ Holds(RulesInOrder[i]) /\ Holds(RulesInOrder[j])
          /\ RulesInOrder[i].state # RulesInOrder[j].state
          /\ i <= Len(transition_config)
          /\ log[1].ret = RulesInOrder[i].state

(* C6: with the default rules, no calendar event and the panel in           *)
(* armed_vacation, determine_state answers armed_vacation whoever is home,  *)
(* day or night, whatever the occupied daytime default.                     *)

C6_VacationSticky ==
    \A k \in 1..Len(log) :
        (/\ log[k].call = "determine_state"
         /\ transition_config = <<>>
         /\ panel = "armed_vacation"
         /\ active_calendar_event(Eng) = None)
            => log[k].ret = "armed_vacation"

C6_Witness ==
    /\ log # <<>>
    /\ log[1].call = "determine_state"
    /\ transition_config = <<>>
    /\ panel = "armed_vacation"
    /\ is_occupied(Eng) /\ ~is_night(Eng)
    /\ occupied_defaults = None
    /\ log[1].ret = "armed_vacation"

----------------------------------------------------------------------------
(* The engine without calendars *)

(* C1: arm(S, source) called while the panel's state is S returns none and  *)
(* leaves the panel state, its changed_by attribute, the ledger and the     *)
(* notifications as they were, for every S and source.                      *)

C1_ArmSameStateNoOp ==
    \A k \in 1..Len(log) :
        (log[k].call = "arm" /\ log[k].pre.panel = log[k].arming_state) =>
            /\ log[k].ret = None
            /\ log[k].post.panel = log[k].pre.panel
            /\ log[k].post.changed_by = log[k].pre.changed_by
            /\ log[k].post.interventions = log[k].pre.interventions
            /\ log[k].post.notifications = log[k].pre.notifications

C1_Witness ==
    \E k \in 1..Len(log) :
        /\ log[k].call = "arm"
        /\ log[k].pre.panel = log[k].arming_state
        /\ log[k].source # None
        /\ log[k].ret = None

(* C8, as stated: when a delayed reset or arm requested at t0 fires at t1,  *)
(* it changes neither the panel state, the limiter nor the ledger if an     *)
(* intervention was recorded at a time in (t0, t1], and it goes on to the   *)
(* reset or the arm if none was.                                            *)

Delayed(lg) == lg # <<>> /\ lg[1].call = "delayed"

C8_AsStated ==
    [][Delayed(log') =>
          IF log'[1].job.intervened
          THEN panel' = panel /\ calls' = calls /\ interventions' = interventions
          ELSE \E k \in 2..Len(log') : log'[k].call \in {"arm", "reset_armed_state"}]_vars

(* C9: an intervention recorded at t stays in the ledger, and                *)
(* has_intervention_since reports it for every cutoff before t, through     *)
(* every step but a housekeeping pass at or after t + intervention_ttl; and *)
(* such a pass removes it.                                                  *)

Housekept(lg) == lg # <<>> /\ lg[1].call = "housekeeping"

InLedger(ledger, entry) == \E k \in 1..Len(ledger) : ledger[k] = entry

C9_LedgerRetention ==
    [][\A i \in 1..Len(interventions) :
          LET entry == interventions[i]
          IN  IF Housekept(log') /\ now' >= entry.created_at + intervention_ttl
              THEN ~InLedger(interventions', entry)
              ELSE /\ InLedger(interventions', entry)
                   /\ \A cutoff \in -1..(entry.created_at - 1) :
                         has_intervention_since([interventions |-> interventions'],
                                                cutoff)]_vars

C9_Witness ==
    /\ Housekept(log)
    /\ \E i, j \in 1..Len(log[1].ledger) :
          /\ now >= log[1].ledger[i].created_at + intervention_ttl
          /\ now < log[1].ledger[j].created_at + intervention_ttl
          /\ ~InLedger(interventions, log[1].ledger[i])
          /\ InLedger(interventions, log[1].ledger[j])

----------------------------------------------------------------------------
(* The engine with host calls that raise. The host decides that the next    *)
(* write of the panel state (commit), the next notify service call (notify) *)
(* or the next evaluation of a transition condition (decide) raises; the    *)
(* call that meets the fault consumes it. Faults are raised in engines      *)
(* configured without a calendar.                                           *)

MaxFaultEvents == 2

Faults == {"commit", "notify", "decide"}

Inject ==
    /\ Running
    /\ Spend
    /\ ~calendars
    /\ fault = NoFault
    /\ fault' \in Faults
    /\ log' = <<>>
    /\ notifications' = <<>>
    /\ UNCHANGED <<now, panel, changed_by, persons, sun, calls, interventions,
                   pre_pending_state, timers, tracked_events, orphans, housekept,
                   polled, phase, calendar, Config, call_times, failures,
                   arming_in_progress>>

InitFaults ==
    /\ Constructed
    /\ budget = MaxFaultEvents
    /\ panel = "disarmed"
    /\ persons \in [Occupants -> {STATE_HOME, "not_home"}]
    /\ sun \in {STATE_BELOW_HORIZON, "above_horizon"}
    /\ window = 1
    /\ max_calls \in {1, 2}
    /\ transition_config = <<>>
    /\ occupied_defaults = None
    /\ calendars \in BOOLEAN
    /\ calendar_no_event_mode \in
          {NO_CAL_EVENT_MODE_AUTO, NO_CAL_EVENT_MODE_MANUAL, "disarmed"}
    /\ ~calendars => calendar_no_event_mode = NO_CAL_EVENT_MODE_AUTO
    /\ calendar = EmptyCalendar

NextFaults ==
    \/ Initialize
    \/ Tick
    \/ Inject
    \/ OnSunrise
    \/ OnSunset
    \/ OnMobileAction
    \/ OnAlarmStateButton
    \/ OnResetButton
    \/ OnOccupancyChange
    \/ OnPanelChange
    \/ ResetService
    \/ Housekeeping
    \/ FireTimer
    \/ CalendarEdit
    \/ Poll
    \/ StartTimer
    \/ EndTimer

SpecFaults == InitFaults /\ [][NextFaults]_vars

(* C12: every call of reset_armed_state writes the last_calculation sensor  *)
(* exactly once, whether it returns early (active calendar event, manual or *)
(* fixed policy, respected intervention), completes, or lets an exception   *)
(* through; a call that does not reach arm leaves the panel, the ledger,    *)
(* the limiter, the timers and the tracked events as they were, so the      *)
(* write itself changes none of them.                                       *)

Reset(k) == log[k].call = "reset_armed_state"

Untouched(entry) ==
    /\ entry.post.panel = entry.pre.panel
    /\ entry.post.changed_by = entry.pre.changed_by
    /\ entry.post.interventions = entry.pre.interventions
    /\ entry.post.calls = entry.pre.calls
    /\ entry.post.timers = entry.pre.timers

C12_AlwaysPublishes ==
    \A k \in 1..Len(log) :
        Reset(k) =>
            /\ log[k].published = 1
            /\ log[k].tracked
            /\ log[k].armed = 0 => Untouched(log[k])

C12_Witness ==
    \E k \in 1..Len(log) :
        /\ Reset(k)
        /\ log[k].ret = Raised
        /\ log[k].determined = 1
        /\ log[k].published = 1
        /\ Untouched(log[k])

(* C13: arm returns a state or none, never an exception: when the write of  *)
(* the panel state raises it returns none with the panel as it was and the  *)
(* failure counter one higher; when the notify service raises the write     *)
(* stands, arm returns the new state and the counter is one higher; in      *)
(* every case arming_in_progress is clear and the timers are as they were   *)
(* when arm returns.                                                        *)

Arm(k) == log[k].call = "arm"

Met(entry, f) == entry.pre.fault = f /\ entry.post.fault = NoFault

C13_ArmNeverRaises ==
    \A k \in 1..Len(log) :
        Arm(k) =>
            /\ log[k].ret \in AlarmControlPanelState \cup {None}
            /\ ~log[k].post.arming_in_progress
            /\ log[k].post.timers = log[k].pre.timers
            /\ Met(log[k], "commit") =>
                  /\ log[k].ret = None
                  /\ log[k].post.panel = log[k].pre.panel
                  /\ log[k].post.failures = log[k].pre.failures + 1
            /\ Met(log[k], "notify") =>
                  /\ log[k].ret = log[k].arming_state
                  /\ log[k].post.panel = log[k].arming_state
                  /\ log[k].post.notifications = log[k].pre.notifications
                  /\ log[k].post.failures = log[k].pre.failures + 1
            /\ log[k].post.fault = log[k].pre.fault =>
                  log[k].post.failures = log[k].pre.failures

C13_Witness ==
    \E k \in 1..Len(log) :
        /\ Arm(k)
        /\ Met(log[k], "commit")
        /\ log[k].ret = None
        /\ panel = log[k].pre.panel
        /\ panel # log[k].arming_state
        /\ failures = 1
        /\ ~arming_in_progress

(* C11: a panel state change committed by arm carries the autoarm marker in *)
(* changed_by; on_panel_change run on a change that carries the marker      *)
(* leaves the ledger alone, notifies nobody and calls nothing, and run on   *)
(* a change that does not carry it appends exactly one intervention with    *)
(* source alarm_panel.                                                      *)

Marked(attr) == attr # NotChangedBy /\ attr.domain = "autoarm"

PanelHandled == log # <<>> /\ log[1].call = "on_panel_change"

C11_ProvenanceMarker ==
    /\ \A k \in 1..Len(log) :
          (log[k].call = "arm" /\ log[k].post.panel # log[k].pre.panel)
             => Marked(log[k].post.changed_by)
    /\ PanelHandled =>
          IF Marked(log[1].changed_by)
          THEN /\ interventions = log[1].ledger
               /\ notifications = <<>>
               /\ Len(log) = 1
          ELSE interventions =
                  Append(log[1].ledger,
                         Intervention(now, "alarm_panel", alarm_state_as_enum(log[1].new)))

C11_Witness ==
    /\ PanelHandled
    /\ Marked(log[1].changed_by)
    /\ log[1].changed_by.source = None
    /\ log[1].new = panel
    /\ log[1].new # log[1].old
    /\ log[1].ledger # <<>>
    /\ interventions = log[1].ledger

----------------------------------------------------------------------------
(* The engine with a calendar, or configured without one *)

InitCalendar ==
    /\ Constructed
    /\ budget = MaxCalendarEvents
    /\ panel = "disarmed"
    /\ persons \in [Occupants -> {STATE_HOME, "not_home"}]
    /\ sun \in {STATE_BELOW_HORIZON, "above_horizon"}
    /\ window = 1
    /\ max_calls \in {1, 2}
    /\ transition_config = <<>>
    /\ occupied_defaults = None
    /\ calendars \in BOOLEAN
    /\ calendar_no_event_mode \in
          {NO_CAL_EVENT_MODE_AUTO, NO_CAL_EVENT_MODE_MANUAL, "disarmed"}
    /\ ~calendars => calendar_no_event_mode = NO_CAL_EVENT_MODE_AUTO
    /\ calendar = EmptyCalendar

NextCalendar ==
    \/ Initialize
    \/ Tick
    \/ CalendarEdit
    \/ Poll
    \/ StartTimer
    \/ EndTimer
    \/ Housekeeping
    \/ OnSunset
    \/ OnMobileAction
    \/ OnPanelChange
    \/ Shutdown

SpecCalendar == InitCalendar /\ [][NextCalendar]_vars

(* C4: without a calendar override, with the panel in a stable state S that *)
(* is not pending and a state-setting intervention in the ledger, a call of *)
(* reset_armed_state that is given no intervention and a source other than  *)
(* calendar and occupancy returns S, asks determine_state nothing and       *)
(* leaves the panel state alone, whoever is home, day or night.             *)

StateSetting(ledger) == \E i \in 1..Len(ledger) : ledger[i].state # None

C4_Respected(entry) ==
    /\ entry.call = "reset_armed_state"
    /\ ~calendars \/ (calendar_no_event_mode = NO_CAL_EVENT_MODE_AUTO /\ ~entry.active)
    /\ alarm_state_as_enum(entry.pre.panel) \notin {None, "pending"}
    /\ StateSetting(entry.pre.interventions)
    /\ entry.intervention = NoIntervention
    /\ entry.source \notin {"calendar", "occupancy"}

C4_InterventionRespected ==
    \A k \in 1..Len(log) :
        C4_Respected(log[k]) =>
            /\ log[k].ret = log[k].pre.panel
            /\ log[k].post.panel = log[k].pre.panel
            /\ log[k].determined = 0

C4_Witness ==
    \E k \in 1..Len(log) :
        /\ C4_Respected(log[k])
        /\ log[k].source = "sunset"
        /\ calendars
        /\ log[k].ret = panel
        /\ determine_state(Eng) \notin {None, panel}

(* C3: while a tracked calendar event is current, reset_armed_state returns *)
(* the current state, asks determine_state nothing and leaves the panel     *)
(* state alone, whatever the source, the intervention and the panel state.  *)

C3_ActiveEventBlocksReset ==
    \A k \in 1..Len(log) :
        (log[k].call = "reset_armed_state" /\ log[k].active) =>
            /\ log[k].ret = armed_state(log[k].pre)
            /\ log[k].post.panel = log[k].pre.panel
            /\ log[k].determined = 0

C3_Witness ==
    \E k \in 1..Len(log) :
        /\ log[k].call = "reset_armed_state"
        /\ log[k].active
        /\ log[k].intervention # NoIntervention
        /\ log[k].ret = panel

(* C7, as stated: when an event tracked under the auto policy ends and no   *)
(* other tracked event is current, the End handler puts the panel in        *)
(* pending, then runs the reset, and leaves the panel in the state          *)
(* determine_state answered whenever it answered one.                       *)

EndedBefore(k) ==
    {i \in 1..(k - 1) : log[i].call = "on_calendar_event_end"}

InHandler(k, i) == i < k /\ \A x \in EndedBefore(k) : x < i

AutoEnd(k) ==
    /\ log[k].call = "on_calendar_event_end"
    /\ log[k].no_event_mode = NO_CAL_EVENT_MODE_AUTO
    /\ ~log[k].other_active

C7_AsStated ==
    \A k \in 1..Len(log) :
        AutoEnd(k) =>
            \E d, j \in 1..Len(log) :
                /\ d < j /\ InHandler(k, d) /\ InHandler(k, j)
                /\ log[d].call = "determine_state"
                /\ log[j].call = "reset_armed_state"
                /\ armed_state(log[j].pre) = "pending"
                /\ log[d].ret # None => log[k].post.panel = log[d].ret

(* C10, as stated: the track_status of a tracked event only moves           *)
(* pending -> started -> ended or pending -> ended, and once the start      *)
(* handler of an event has run, at creation or from the start timer, its    *)
(* status is no longer pending.                                             *)

StatusMoves ==
    {<<"pending", "pending">>, <<"pending", "started">>, <<"pending", "ended">>,
     <<"started", "started">>, <<"started", "ended">>, <<"ended", "ended">>}

C10_AsStated ==
    [][/\ \A i \in 1..Len(tracked_events), j \in 1..Len(tracked_events') :
            tracked_events[i].id = tracked_events'[j].id =>
               <<tracked_events[i].track_status, tracked_events'[j].track_status>>
                  \in StatusMoves
       /\ \A k \in 1..Len(log'), j \in 1..Len(tracked_events') :
            (/\ log'[k].call = "on_calendar_event_start"
             /\ log'[k].id = tracked_events'[j].id)
               => tracked_events'[j].track_status # "pending"]_vars

(* C14, as stated: once shutdown() has run, no timer of schedule_state and  *)
(* no start or end listener of any event the engine has tracked is still    *)
(* registered, and no step changes the panel state or the ledger.           *)

Listeners(tracked, orphaned, jobs) ==
    {t \in {tracked[i] : i \in 1..Len(tracked)} \cup orphaned : HasListener(t)}
       \cup {jobs[i] : i \in 1..Len(jobs)}

C14_AsStated ==
    [][phase' = "shutdown" =>
          /\ Listeners(tracked_events', orphans', timers') = {}
          /\ phase = "shutdown" =>
                (panel' = panel /\ interventions' = interventions)]_vars

(* C15, as stated: the handler of one trigger commits at most one panel     *)
(* state change.                                                            *)

Commits ==
    Cardinality({k \in 1..Len(log) :
                    log[k].call = "arm" /\ log[k].post.panel # log[k].pre.panel})

C15_AsStated == Commits <= 1

(* C15, amended: the handler of a trigger that is not a calendar one        *)
(* (sunrise, sunset, button, mobile action, occupancy or panel change,      *)
(* delayed job, reset service, housekeeping without calendar) commits at    *)
(* most one panel state change; a poll, a housekeeping pass or an event     *)
(* timer commits at most one change for each start handler it runs, two     *)
(* (pending, then the recomputed state) for each End handler it runs under  *)
(* the auto policy and one for each End handler under another policy; the   *)
(* startup commits at most one more than its initial poll.                  *)

CalendarTriggers == {"on_timed_poll", "start_timer", "end_timer", "housekeeping"}

EndsRun(auto) ==
    Cardinality({k \in 1..Len(log) :
                    /\ log[k].call = "on_calendar_event_end"
                    /\ (log[k].no_event_mode = NO_CAL_EVENT_MODE_AUTO) = auto})

C15_CommitsPerTrigger ==
    log # <<>> =>
        Commits <= (IF log[1].call \in CalendarTriggers THEN 0 ELSE 1)
                   + Count(log, "on_calendar_event_start")
                   + 2 * EndsRun(TRUE) + EndsRun(FALSE)

C15_Witness ==
    /\ log # <<>>
    /\ log[1].call = "end_timer"
    /\ EndsRun(TRUE) = 1
    /\ Commits = 2
    /\ panel \notin {"pending", "armed_vacation"}

(* C16, as stated: a reset that on_occupancy_change runs, at once or from   *)
(* the job it scheduled through the occupancy delay, asks determine_state   *)
(* for the state whatever state-setting interventions the ledger holds.     *)

OccupancyReset(k) ==
    /\ Reset(k)
    /\ \/ log[1].call = "on_occupancy_change"
       \/ log[1].call = "delayed" /\ log[1].job.origin = "occupancy"

C16_AsStated ==
    \A k \in 1..Len(log) :
        (OccupancyReset(k) /\ StateSetting(log[k].pre.interventions))
            => log[k].determined = 1

(* C17, as stated: when the start handler of a tracked event has run, at    *)
(* creation or from the start timer, the arm call it made had the source    *)
(* calendar and left the panel in the event's arming_state, whatever the    *)
(* ledger and the limiter held.                                             *)

C17_AsStated ==
    \A k \in 2..Len(log) :
        log[k].call = "on_calendar_event_start" =>
            /\ log[k - 1].call = "arm"
            /\ log[k - 1].source = "calendar"
            /\ log[k - 1].post.panel = log[k - 1].arming_state

(* C18, as stated: when remove() is called on a tracked event that the      *)
(* calendar no longer returns or that no longer matches a state, the        *)
(* handler that called it runs the End handler of the event if its start    *)
(* handler has run (at creation or from the start timer) and the event is   *)
(* current, and runs no End handler of it if its start handler has not run. *)

EndRunFor(id) ==
    \E j \in 1..Len(log) : log[j].call = "on_calendar_event_end" /\ log[j].id = id

C18_AsStated ==
    \A k \in 1..Len(log) :
        log[k].call = "remove" =>
            /\ ("start" \in log[k].ran /\ log[k].current) => EndRunFor(log[k].id)
            /\ "start" \notin log[k].ran => ~EndRunFor(log[k].id)

(* C19, as stated: an event tracked after its end is ended from creation,   *)
(* and no End handler run for it, at creation or by the pass that prunes    *)
(* it, runs reset_armed_state or changes the panel state, the limiter or    *)
(* the notifications.                                                       *)

PastEnd(k) == log[k].call = "on_calendar_event_end" /\ "past" \in log[k].ran

C19_AsStated ==
    /\ \A i \in 1..Len(tracked_events) :
          "past" \in tracked_events[i].ran => tracked_events[i].track_status = "ended"
    /\ \A k \in 2..Len(log) :
          PastEnd(k) =>
             /\ log[k - 1].call # "reset_armed_state"
             /\ log[k].post.panel = log[k].pre.panel
             /\ log[k].post.calls = log[k].pre.calls
             /\ log[k].post.notifications = log[k].pre.notifications

(* C20, as stated: under the manual policy, an End handler that finds no    *)
(* other event active leaves the panel in the state recorded when the event *)
(* was first tracked; and once the End handler of an event has done so, no  *)
(* later run of it changes the panel again.                                 *)

ManualEnd(k) ==
    /\ log[k].call = "on_calendar_event_end"
    /\ log[k].no_event_mode = NO_CAL_EVENT_MODE_MANUAL
    /\ ~log[k].other_active

C20_AsStated ==
    \A k \in 1..Len(log) :
        ManualEnd(k) =>
            IF "released" \in log[k].ran
            THEN log[k].post.panel = log[k].pre.panel
            ELSE log[k].post.panel = log[k].previous_state

(* C21: an End handler that runs while another tracked event is current     *)
(* calls nothing (no pending_state, no reset_armed_state, no arm) and       *)
(* leaves the panel state, its changed_by attribute, the limiter, the       *)
(* ledger, the timers, the notifications and pre_pending_state as they      *)
(* were, under every no-event policy.                                       *)

OtherActiveEnd(k) == log[k].call = "on_calendar_event_end" /\ log[k].other_active

C21_OtherEventTakesOver ==
    \A k \in 1..Len(log) :
        OtherActiveEnd(k) =>
            /\ log[k].made = 0
            /\ log[k].post = log[k].pre
            /\ log[k].pre_pending_state[2] = log[k].pre_pending_state[1]

C21_Witness ==
    \E k \in 1..Len(log) :
        /\ OtherActiveEnd(k)
        /\ log[1].call = "end_timer"
        /\ log[k].no_event_mode = NO_CAL_EVENT_MODE_AUTO
        /\ log[k].previous_state # panel
        /\ \E i \in 1..Len(tracked_events) :
              /\ tracked_events[i].id # log[k].id
              /\ is_current(tracked_events[i])
              /\ tracked_events[i].arming_state = panel

----------------------------------------------------------------------------
(* The engine under a configured rule set: a transition may be configured   *)
(* for any name of AlarmControlPanelState (const.py, ALARM_STATES), and the *)
(* configured transitions are evaluated before the defaults of the states   *)
(* left out.                                                                *)

MaxRuleEvents == 2

TransitionConfigs ==
    {<<>>} \cup {<<[state |-> st, conditions |-> <<"true">>]>> :
                    st \in AlarmControlPanelState}

InitRules ==
    /\ Constructed
    /\ budget = MaxRuleEvents
    /\ panel \in {"disarmed", "armed_custom_bypass"}
    /\ persons \in [Occupants -> {STATE_HOME, "not_home"}]
    /\ sun \in {STATE_BELOW_HORIZON, "above_horizon"}
    /\ window = 1
    /\ max_calls = 1
    /\ transition_config \in TransitionConfigs
    /\ occupied_defaults = None
    /\ calendars = FALSE
    /\ calendar_no_event_mode = NO_CAL_EVENT_MODE_AUTO
    /\ calendar = EmptyCalendar

NextRules ==
    \/ Initialize
    \/ Tick
    \/ OnSunrise
    \/ OnSunset
    \/ OnOccupancyChange
    \/ OnPanelChange
    \/ ResetService
    \/ Housekeeping
    \/ FireTimer

SpecRules == InitRules /\ [][NextRules]_vars

(* C22, as stated: whatever transitions are configured, a call of           *)
(* reset_armed_state that asked determine_state and changed the panel state *)
(* left it in none of pending, arming, disarming, triggered.                *)

TransientStates == {"pending", "arming", "disarming", "triggered"}

C22_AsStated ==
    \A k \in 1..Len(log) :
        (Reset(k) /\ log[k].determined = 1 /\ log[k].post.panel # log[k].pre.panel)
            => log[k].post.panel \notin TransientStates

----------------------------------------------------------------------------
(* The Actuator and the Limiter *)

Recorded(entry) ==
    entry.post.calls = triggered(entry.pre.calls, now, window, max_calls).calls

(* C23, as stated: every call of arm leaves the limiter's call list as      *)
(* triggered() leaves it, the time of the call appended.                    *)

C23_AsStated == \A k \in 1..Len(log) : Arm(k) => Recorded(log[k])

(* C23, amended: a call of arm whose target is none or is the state the     *)
(* panel is in returns none and leaves the call list alone; every other     *)
(* call leaves the call list as triggered() leaves it, the time of the call *)
(* appended and the times before the window dropped, whether or not the     *)
(* call is then refused; it is refused (none returned, panel unchanged)     *)
(* exactly when triggered() answers true, and otherwise writes the target   *)
(* unless the write raises.                                                 *)

NoOp(entry) ==
    entry.arming_state = None \/ armed_state(entry.pre) = entry.arming_state

Refused(entry) == triggered(entry.pre.calls, now, window, max_calls).ret

C23_RecordThenCheck ==
    \A k \in 1..Len(log) :
        Arm(k) =>
            IF NoOp(log[k])
            THEN log[k].post.calls = log[k].pre.calls /\ log[k].ret = None
            ELSE /\ Recorded(log[k])
                 /\ Refused(log[k]) =>
                       (log[k].ret = None /\ log[k].post.panel = log[k].pre.panel)
                 /\ (~Refused(log[k]) /\ log[k].pre.fault # "commit") =>
                       (/\ log[k].ret = log[k].arming_state
                        /\ log[k].post.panel = log[k].arming_state)

C23_Witness ==
    \E j, k \in 1..Len(log) :
        /\ j < k
        /\ Arm(j) /\ Arm(k)
        /\ ~NoOp(log[j]) /\ Refused(log[j]) /\ log[j].ret = None
        /\ Len(log[j].post.calls) = Len(log[j].pre.calls) + 1
        /\ ~NoOp(log[k]) /\ Refused(log[k])
        /\ Len(log[k].post.calls) = Len(log[k].pre.calls) + 1

----------------------------------------------------------------------------
(* De-zombification *)

ZombieChange ==
    /\ PanelHandled
    /\ log[1].new \in ZOMBIE_STATES
    /\ ~Marked(log[1].changed_by)

Determined == {log[k].ret : k \in {i \in 1..Len(log) : log[i].call = "determine_state"}}

(* C24, as stated: on_panel_change run on an external change to unknown or  *)
(* unavailable runs a reset that asks determine_state, and leaves the panel *)
(* in the state determine_state answered.                                   *)

C24_AsStated ==
    ZombieChange =>
        /\ \E k \in 1..Len(log) : Reset(k) /\ log[k].determined = 1
        /\ \A d \in Determined \ {None} : panel = d

(* C24, amended: on_panel_change run on an external change to unknown or    *)
(* unavailable calls reset_armed_state once, with source zombification and  *)
(* no intervention. With a calendar and a current tracked event or the      *)
(* manual policy the reset asks determine_state nothing and the panel stays *)
(* as reported; with a calendar and a fixed policy it arms the fixed state; *)
(* otherwise it asks determine_state whatever the ledger holds and arms the *)
(* state answered. A call of arm the limiter refuses leaves the panel as    *)
(* reported.                                                                *)

Overridden(entry) ==
    calendars /\ (entry.active \/ calendar_no_event_mode = NO_CAL_EVENT_MODE_MANUAL)

FixedPolicy == calendars /\ calendar_no_event_mode \in AlarmControlPanelState

ArmedTo(target) ==
    /\ Count(log, "arm") = 1
    /\ \A j \in 1..Len(log) :
          Arm(j) => /\ log[j].arming_state = target
                    /\ panel = (IF Refused(log[j]) THEN log[1].new ELSE target)

C24_Dezombify ==
    ZombieChange =>
        /\ Count(log, "reset_armed_state") = 1
        /\ \A k \in 1..Len(log) :
              Reset(k) =>
                 /\ log[k].source = "zombification"
                 /\ log[k].intervention = NoIntervention
                 /\ IF Overridden(log[k])
                    THEN log[k].determined = 0 /\ log[k].armed = 0 /\ panel = log[1].new
                    ELSE IF FixedPolicy
                    THEN log[k].determined = 0 /\ ArmedTo(calendar_no_event_mode)
                    ELSE /\ log[k].determined = 1
                         /\ \A d \in Determined :
                               IF d \in {None, "pending"}
                               THEN log[k].armed = 0 /\ panel = log[1].new
                               ELSE ArmedTo(d)

C24_Witness ==
    /\ ZombieChange
    /\ calendars
    /\ StateSetting(log[1].ledger)
    /\ \E k \in 1..Len(log) : Reset(k) /\ log[k].determined = 1
    /\ Determined = {panel}
    /\ panel \in {"armed_home", "armed_away", "armed_night"}

----------------------------------------------------------------------------
(* The prune pass *)

Pruned ==
    /\ log # <<>>
    /\ calendars
    /\ log[1].call \in {"on_timed_poll", "housekeeping"}

(* C25, as stated: a poll or a housekeeping pass over a calendar completes  *)
(* its prune_events without an exception, and leaves in tracked_events only *)
(* events that are current or future and that the calendar still holds.     *)

C25_AsStated ==
    Pruned =>
        /\ Count(log, "KeyError") = 0
        /\ \A i \in 1..Len(tracked_events) :
              /\ is_current(tracked_events[i]) \/ is_future(tracked_events[i])
              /\ tracked_events[i].id \in DOMAIN calendar

----------------------------------------------------------------------------
(* The diagnostic record *)

(* C26, as stated: the record a call of reset_armed_state writes to the     *)
(* last_calculation sensor says changed exactly when the call changed the   *)
(* panel state, and its new_state is the state the panel is in when the     *)
(* call returns.                                                            *)

Published(k) == k > 1 /\ Reset(k) /\ log[k - 1].call = "last_calculation"

C26_AsStated ==
    \A k \in 1..Len(log) :
        Published(k) =>
            /\ log[k - 1].changed = (log[k].post.panel # log[k].pre.panel)
            /\ log[k - 1].new_state = armed_state(log[k].post)

----------------------------------------------------------------------------
(* The End handler, run again *)

(* C27, as stated: once the End handler of a tracked event has changed the  *)
(* panel state, no later run of the End handler of that event, from the end *)
(* timer, update, remove or a prune pass, changes the panel state, the      *)
(* limiter or the notifications.                                            *)

C27_AsStated ==
    \A k \in 1..Len(log) :
        (log[k].call = "on_calendar_event_end" /\ "applied" \in log[k].ran)
            => log[k].post = log[k].pre

----------------------------------------------------------------------------
(* The start handler of an event no longer tracked *)

(* C28, as stated: the start handler runs only for an event that is in      *)
(* tracked_events and whose status is not ended.                            *)

C28_AsStated ==
    \A k \in 1..Len(log) :
        log[k].call = "on_calendar_event_start" =>
            /\ log[k].track_status # "ended"
            /\ ~log[k].dropped

----------------------------------------------------------------------------
(* The default rules on their own: every panel state the host can report,   *)
(* every occupancy and sun state, every occupied daytime default the        *)
(* occupancy schema accepts that the rules name or do not name, with and    *)
(* without a calendar and a current tracked event.                          *)

DaytimeDefaults == {None, "armed_home", "disarmed", "armed_night"}

CurrentEvent ==
    [uid |-> "e1", start |-> 0, end |-> 1, state |-> "armed_vacation"]

CurrentTracked ==
    [id |-> "e1", event |-> CurrentEvent, arming_state |-> "armed_vacation",
     no_event_mode |-> NO_CAL_EVENT_MODE_AUTO,
     start_listener |-> NoTime, end_listener |-> 1,
     previous_state |-> "disarmed", track_status |-> "started",
     tracked_at |-> 0, ran |-> {"start"}]

InitDefaults ==
    /\ now = 0
    /\ changed_by = NotChangedBy
    /\ calls = <<>>
    /\ interventions = <<>>
    /\ pre_pending_state = None
    /\ timers = <<>>
    /\ orphans = {}
    /\ housekept = FALSE
    /\ polled = FALSE
    /\ notifications = <<>>
    /\ log = <<>>
    /\ call_times = <<>>
    /\ fault = NoFault
    /\ failures = 0
    /\ arming_in_progress = FALSE
    /\ phase = "running"
    /\ budget = 0
    /\ panel \in AlarmControlPanelState \cup ZOMBIE_STATES
    /\ persons \in [Occupants -> {STATE_HOME, "not_home"}]
    /\ sun \in {STATE_BELOW_HORIZON, "above_horizon"}
    /\ window = 1
    /\ max_calls = 1
    /\ transition_config = <<>>
    /\ occupied_defaults \in DaytimeDefaults
    /\ calendars \in BOOLEAN
    /\ calendar_no_event_mode = NO_CAL_EVENT_MODE_AUTO
    /\ \/ calendar = EmptyCalendar /\ tracked_events = <<>>
       \/ calendars /\ calendar = [u \in {"e1"} |-> CurrentEvent]
                    /\ tracked_events = <<CurrentTracked>>

NextDefaults == Evaluate

SpecDefaults == InitDefaults /\ [][NextDefaults]_vars

(* C29: with the default rules, whatever the panel state, the occupancy,    *)
(* the sun, the active calendar event and the occupied daytime default, the *)
(* conditions of at most one rule are true, and determine_state answers the *)
(* same going through the rules first to last or last to first.             *)

DefaultsHolding ==
    {i \in 1..Len(DEFAULT_TRANSITIONS) : Holds(DEFAULT_TRANSITIONS[i])}

C29_DefaultRulesExclusive ==
    /\ Cardinality(DefaultsHolding) <= 1
    /\ transitions = DEFAULT_TRANSITIONS
    /\ \A k \in 1..Len(log) :
          log[k].call = "determine_state" =>
             /\ log[k].ret = LastMatch(transitions, condition_vars(Eng))
             /\ \A i \in DefaultsHolding : log[k].ret = DEFAULT_TRANSITIONS[i].state
             /\ DefaultsHolding = {} => log[k].ret = None

C29_Witness ==
    /\ log # <<>>
    /\ log[1].call = "determine_state"
    /\ active_calendar_event(Eng) # None
    /\ panel = "armed_vacation"
    /\ ~is_occupied(Eng)
    /\ Cardinality(DefaultsHolding) = 1
    /\ log[1].ret = "armed_vacation"

----------------------------------------------------------------------------
(* The ledger over time. Time passes, the housekeeping timer fires at every *)
(* hour and a job of schedule_state fires when it is due: these steps are   *)
(* taken whenever they stay possible. The handlers of external events are   *)
(* not: the environment raises them or not.                                 *)

MaxLiveEvents == 2

InitLive ==
    /\ Constructed
    /\ budget = MaxLiveEvents
    /\ panel = "disarmed"
    /\ persons \in [Occupants -> {STATE_HOME, "not_home"}]
    /\ sun \in {STATE_BELOW_HORIZON, "above_horizon"}
    /\ window = 1
    /\ max_calls \in {1, 2}
    /\ transition_config = <<>>
    /\ occupied_defaults = None
    /\ calendars = FALSE
    /\ calendar_no_event_mode = NO_CAL_EVENT_MODE_AUTO
    /\ calendar = EmptyCalendar

(* A job that is due fires: weak fairness of FireTimer, written with the    *)
(* condition under which it is enabled, a job being due.                    *)

JobDue == Running /\ \E i \in 1..Len(timers) : timers[i].trigger_time <= now

SpecLive ==
    /\ InitLive
    /\ [][Next]_vars
    /\ WF_vars(Tick)
    /\ WF_vars(Housekeeping)
    /\ ([]<>~JobDue \/ []<><<FireTimer>>_vars)

(* The last housekeeping pass within the time the model covers *)

LastHousekeeping == MaxTime - (MaxTime % HousekeepingPeriod)

Expiring(entry) == entry.created_at + intervention_ttl <= LastHousekeeping

DiurnalReset(k) ==
    /\ Reset(k)
    /\ \/ log[1].call \in {"on_sunrise", "on_sunset"}
       \/ log[1].call = "delayed" /\ log[1].job.origin = "sunrise"

(* C30: with housekeeping firing at every hour, every intervention whose    *)
(* ttl ends by the last housekeeping pass is eventually out of the ledger   *)
(* and stays out, whatever was recorded after it; and a reset run by        *)
(* sunrise or sunset asks determine_state whenever the ledger holds no      *)
(* state-setting intervention, so that only an intervention still in the    *)
(* ledger suppresses it.                                                    *)

C30_LedgerDrains ==
    /\ <>[](\A i \in 1..Len(interventions) : ~Expiring(interventions[i]))
    /\ [](\A k \in 1..Len(log) :
            (DiurnalReset(k) /\ ~StateSetting(log[k].pre.interventions))
               => log[k].determined = 1)

C30_Witness ==
    /\ log # <<>>
    /\ log[1].call = "on_sunset"
    /\ \E k \in 1..Len(log) :
          /\ Reset(k)
          /\ log[k].pre.interventions = <<>>
          /\ log[k].pre.changed_by = ChangedBy("autoarm", "mobile")
          /\ log[k].determined = 1
          /\ log[k].post.panel # log[k].pre.panel

====
